---- MODULE Spec2Model ----
(***************************************************************************)
(* CsFM (src/main.rs): the reducer `update`, the directory lister          *)
(* `get_files`, the zenity helpers, `load_config` and the construction of  *)
(* the application state in `Default for CsFM`, over a small filesystem.   *)
(*                                                                         *)
(* A PathBuf is a record [abs, comps]: whether it starts at the root, and   *)
(* its normal components.  A filesystem node is the sequence of names from *)
(* the root.  The filesystem is a pair of sets of nodes, dirs and files.   *)
(***************************************************************************)
EXTENDS Integers, Sequences, FiniteSets, TLC

VARIABLES
    fs,             \* the filesystem: [dirs, files], sets of nodes
    cwd,            \* the process's working directory (a node), or NoCwd
    cfgFile,        \* ~/.config/csdesktop/csfm.toml: "missing", "malformed" or a Config
    phase,          \* "boot" (before CsFM::default), "run", "crashed" (panicked)
    config,         \* CsFM.config
    path,           \* CsFM.path
    current_files,  \* CsFM.current_files: a sequence of <<PathBuf, is_dir>>
    sidebar_open,   \* CsFM.sidebar_open
    pending,        \* Task::done(Message::CDToPath) not yet delivered, oldest first,
                    \* each named by the message that produced it
    notes,          \* calls of error_zenity made by the last step
    last            \* the last message processed and what it did

vars == <<fs, cwd, cfgFile, phase, config, path, current_files, sidebar_open,
          pending, notes, last>>

----------------------------------------------------------------------------
(* Bounds *)

MaxPending == 1      \* follow-up messages in flight at once
MaxEntryErrs == 1    \* directory entries whose read fails in one enumeration

----------------------------------------------------------------------------
(* Paths *)

Abs(c) == [abs |-> TRUE, comps |-> c]
Rel(c) == [abs |-> FALSE, comps |-> c]
Root == Abs(<<>>)

NoCwd == <<"?">>
Nowhere == <<"?", "?">>

\* OsStr bytes of the names used (ASCII)
OsStrBytes(n) ==
    CASE n = "."  -> <<46>>
      [] n = ".." -> <<46, 46>>
      [] n = ".s" -> <<46, 115>>
      [] n = "A"  -> <<65>>
      [] n = "b"  -> <<98>>
      [] n = "zz" -> <<122, 122>>

\* str::starts_with('.')
StartsWithDot(n) == OsStrBytes(n)[1] = 46

\* Ord for byte strings: lexicographic, a proper prefix is smaller
RECURSIVE BytesLess(_, _)
BytesLess(x, y) ==
    IF y = <<>> THEN FALSE
    ELSE IF x = <<>> THEN TRUE
    ELSE IF Head(x) # Head(y) THEN Head(x) < Head(y)
    ELSE BytesLess(Tail(x), Tail(y))

\* Path::parent: None for "/" and for "", else the path without its last component
HasParent(p) == p.comps # <<>>
Parent(p) == [p EXCEPT !.comps = SubSeq(p.comps, 1, Len(p.comps) - 1)]

\* Path::file_name of a path with a last normal component
FileName(p) == p.comps[Len(p.comps)]

\* Path::join with one name
Join(p, n) == [p EXCEPT !.comps = Append(p.comps, n)]

----------------------------------------------------------------------------
(* The filesystem *)

\* the node a path names, for the kernel: a relative path is taken from the
\* working directory, and the empty path names nothing
Resolve(p) ==
    IF p.abs THEN p.comps
    ELSE IF p.comps = <<>> \/ cwd = NoCwd THEN Nowhere
    ELSE cwd \o p.comps

Kind(f, n) ==
    IF n \in f.dirs THEN "dir" ELSE IF n \in f.files THEN "file" ELSE "none"

IsPrefix(d, n) == Len(d) <= Len(n) /\ SubSeq(n, 1, Len(d)) = d

ChildNames(f, d) ==
    { n[Len(n)] : n \in { m \in f.dirs \cup f.files :
                              Len(m) = Len(d) + 1 /\ IsPrefix(d, m) } }

\* what the directory stream of d holds: the two pseudo-entries and the children
RawDirStream(f, d) == {".", ".."} \cup ChildNames(f, d)

\* fs::read_dir: fails unless the path is a directory; the iterator skips "." and ".."
ReadDirOk(p) == Kind(fs, Resolve(p)) = "dir"
ReadDir(p) == RawDirStream(fs, Resolve(p)) \ {".", ".."}

\* Path::is_dir
IsDir(p) == Kind(fs, Resolve(p)) = "dir"

\* fs::remove_file: unlinks a file; fails on anything else or without permission
RemoveFile(f, n, perm) ==
    IF Kind(f, n) = "file" /\ perm
    THEN [ok |-> TRUE, fs |-> [f EXCEPT !.files = @ \ {n}]]
    ELSE [ok |-> FALSE, fs |-> f]

\* fs::remove_dir_all: removes a directory and everything below it
RemoveDirAll(f, n, perm) ==
    IF Kind(f, n) = "dir" /\ perm
    THEN [ok |-> TRUE,
          fs |-> [dirs  |-> { m \in f.dirs : ~IsPrefix(n, m) },
                  files |-> { m \in f.files : ~IsPrefix(n, m) }]]
    ELSE [ok |-> FALSE, fs |-> f]

----------------------------------------------------------------------------
(* get_files *)

\* a comparator that orders by file_name alone
EntryLessByName(a, b) ==
    BytesLess(OsStrBytes(FileName(a[1])), OsStrBytes(FileName(b[1])))

\* the comparator of sort_by: directories first, then by file_name
EntryLess(a, b) ==
    CASE a[2] /\ ~b[2] -> TRUE
      [] ~a[2] /\ b[2] -> FALSE
      [] OTHER -> BytesLess(OsStrBytes(FileName(a[1])), OsStrBytes(FileName(b[1])))

\* Vec::sort_by over the entries pushed by the loop
RECURSIVE SortFiles(_)
SortFiles(S) ==
    IF S = {} THEN <<>>
    ELSE LET m == CHOOSE x \in S : \A y \in S \ {x} : ~EntryLess(y, x)
         IN  <<m>> \o SortFiles(S \ {m})

\* a loop that skips nothing
SkippedNever(show_hidden_files, file_name) == FALSE

\* the `continue` of the loop: a hidden name when hidden files are not shown
Skipped(show_hidden_files, file_name) ==
    ~show_hidden_files /\ StartsWithDot(file_name)

\* get_files(path, show_hidden_files); bad: the entries the iterator yields as Err
GetFiles(p, show_hidden_files, bad) ==
    IF ~ReadDirOk(p) THEN <<>>
    ELSE LET kept == { n \in ReadDir(p) \ bad : ~Skipped(show_hidden_files, n) }
         IN  SortFiles({ <<Join(p, n), IsDir(Join(p, n))>> : n \in kept })

\* the sets of entries a directory enumeration may fail to read
EntryErrs(p) ==
    IF ReadDirOk(p)
    THEN { b \in SUBSET ReadDir(p) : Cardinality(b) <= MaxEntryErrs }
    ELSE { {} }

----------------------------------------------------------------------------
(* zenity *)

\* how Command::output() of `zenity --question` ends: Ok with exit status 0
\* (the user answered yes), Ok with another exit status (the user answered no,
\* or zenity itself exited with an error), or Err (zenity could not be run)
ZenityOutcomes == {"exit0", "exit1", "err"}

\* a question_zenity that takes a zenity it could not run for a yes
QuestionZenityErrIsYes(outcome) ==
    CASE outcome = "exit0" -> [out |-> TRUE,  notes |-> 0]
      [] outcome = "exit1" -> [out |-> FALSE, notes |-> 0]
      [] outcome = "err"   -> [out |-> TRUE,  notes |-> 1]

\* question_zenity: the value returned, and the error_zenity calls made
QuestionZenity(outcome) ==
    CASE outcome = "exit0" -> [out |-> TRUE,  notes |-> 0]
      [] outcome = "exit1" -> [out |-> FALSE, notes |-> 0]
      [] outcome = "err"   -> [out |-> FALSE, notes |-> 1]

----------------------------------------------------------------------------
(* Configuration *)

Location(t, p) == [title |-> t, path |-> p]

\* #[derive(Default)] for Config
DefaultConfig == [theme |-> "", show_hidden_files |-> FALSE, sidebar_loc |-> <<>>]

Bookmarks == << Location("Gone", Abs(<<"zz">>)),
                Location("Home", Abs(<<"A">>)) >>

ConfigFiles ==
    { [status |-> s, value |-> DefaultConfig] : s \in {"missing", "malformed"} }
    \cup
    { [status |-> "ok",
       value |-> [theme |-> "GruvboxDark", show_hidden_files |-> h, sidebar_loc |-> l]] :
          h \in BOOLEAN, l \in {Bookmarks} }

\* load_config: read_to_string(..).unwrap() and toml::from_str(..).unwrap()
LoadConfigPanics(file) == file.status # "ok"
LoadConfig(file) == file.value

----------------------------------------------------------------------------
(* Records of what a step did *)

NoArg == Rel(<<>>)
NoOrigin == "-"

\* op, arg: the message; answer: how zenity --question ended; removed: the
\* removal was done; ok: the fallible call of the handler succeeded (read_dir,
\* remove_*, that_detached, load_config); listed, flag, bad: the result of
\* get_files, its show_hidden_files argument and the entries it could not
\* read; origin: for a CDToPath, the message that produced it ("Submit" for the
\* path field); from: CsFM.path before the step
Did(op, arg) ==
    [op |-> op, arg |-> arg, from |-> path, answer |-> "-", removed |-> FALSE, ok |-> TRUE,
     listed |-> <<>>, flag |-> FALSE, bad |-> {}, origin |-> NoOrigin]

----------------------------------------------------------------------------
(* Initial states *)

\* the directory of the scenario: a hidden file, a file and a subdirectory
\* holding one file
FsOne == [dirs  |-> { <<>>, <<"A">> },
          files |-> { <<".s">>, <<"b">>, <<"A", "b">> }]

InitFs == {FsOne}

Init ==
    /\ fs \in InitFs
    /\ cwd \in {NoCwd} \cup fs.dirs
    /\ cfgFile \in ConfigFiles
    /\ phase = "boot"
    /\ config = DefaultConfig
    /\ path = Root
    /\ current_files = <<>>
    /\ sidebar_open = FALSE
    /\ pending = <<>>
    /\ notes = 0
    /\ last = Did("-", NoArg)

\* Default for CsFM: the path, then load_config (which may panic), then the listing
Startup ==
    /\ phase = "boot"
    /\ IF LoadConfigPanics(cfgFile)
       THEN /\ phase' = "crashed"
            /\ UNCHANGED <<config, path, current_files, sidebar_open>>
            /\ last' = [Did("Default", NoArg) EXCEPT !.ok = FALSE]
       ELSE \E bad \in EntryErrs(IF cwd = NoCwd THEN Root ELSE Abs(cwd)) :
              LET p == IF cwd = NoCwd THEN Root ELSE Abs(cwd)
                  files == GetFiles(p, FALSE, bad)
              IN  /\ phase' = "run"
                  /\ config' = LoadConfig(cfgFile)
                  /\ path' = p
                  /\ current_files' = files
                  /\ sidebar_open' = TRUE
                  /\ last' = [Did("Default", p) EXCEPT !.ok = ReadDirOk(p),
                                   !.listed = files, !.bad = bad]
    /\ notes' = 0
    /\ UNCHANGED <<fs, cwd, cfgFile, pending>>

----------------------------------------------------------------------------
(* What the view offers: view() builds one button per entry of current_files *)
(* and, with the sidebar open, one per configured location                   *)

ViewDirs == { current_files[i][1] : i \in { j \in DOMAIN current_files : current_files[j][2] } }
ViewFiles == { current_files[i][1] : i \in { j \in DOMAIN current_files : ~current_files[j][2] } }

\* locations(state): a CD button per sidebar_loc entry, in order
Locations == [ i \in DOMAIN config.sidebar_loc |-> config.sidebar_loc[i].path ]

SeqRange(q) == { q[i] : i \in DOMAIN q }

\* what the user may type into the path field
TypedPaths == { Root, Abs(<<"A">>), Abs(<<"zz">>), Rel(<<"A">>) }

----------------------------------------------------------------------------
(* update *)

Running == phase = "run"
CanChain == Len(pending) < MaxPending

\* Message::None
MsgNone ==
    /\ Running
    /\ last' = Did("None", NoArg)
    /\ notes' = 0
    /\ UNCHANGED <<fs, cwd, cfgFile, phase, config, path, current_files,
                   sidebar_open, pending>>

\* a PathChanged that also chains a listing of the typed path
MsgPathChangedAndList(s) ==
    /\ Running /\ CanChain
    /\ path' = s
    /\ pending' = Append(pending, "PathChanged")
    /\ last' = Did("PathChanged", s)
    /\ notes' = 0
    /\ UNCHANGED <<fs, cwd, cfgFile, phase, config, current_files, sidebar_open>>

\* Message::PathChanged(s)
MsgPathChanged(s) ==
    /\ Running
    /\ path' = s
    /\ last' = Did("PathChanged", s)
    /\ notes' = 0
    /\ UNCHANGED <<fs, cwd, cfgFile, phase, config, current_files, sidebar_open, pending>>

\* `if !files.is_empty() { state.current_files = files }`
KeepOrReplace(files, current) == IF files # <<>> THEN files ELSE current

\* a CDToPath that lists the path as it was before the last message
HandleCDToPathStale(origin, bad) ==
    LET files == GetFiles(last.from, config.show_hidden_files, bad)
    IN  /\ current_files' = KeepOrReplace(files, current_files)
        /\ notes' = 0
        /\ last' = [Did("CDToPath", path) EXCEPT
                        !.ok = ReadDirOk(last.from), !.listed = files,
                        !.flag = config.show_hidden_files, !.bad = bad,
                        !.origin = origin]
        /\ UNCHANGED <<fs, cwd, cfgFile, phase, config, path, sidebar_open>>

\* Message::CDToPath
HandleCDToPath(origin, bad) ==
    LET files == GetFiles(path, config.show_hidden_files, bad)
    IN  /\ current_files' = KeepOrReplace(files, current_files)
        /\ notes' = 0
        /\ last' = [Did("CDToPath", path) EXCEPT
                        !.ok = ReadDirOk(path), !.listed = files,
                        !.flag = config.show_hidden_files, !.bad = bad,
                        !.origin = origin]
        /\ UNCHANGED <<fs, cwd, cfgFile, phase, config, path, sidebar_open>>

\* the path field's on_submit
SubmitCDToPath ==
    /\ Running
    /\ \E bad \in EntryErrs(path) :
          HandleCDToPath("Submit", bad)
    /\ UNCHANGED pending

\* a chained CDToPath whose handler chains another one
ChainedCDToPathAgain ==
    /\ Running
    /\ pending # <<>>
    /\ \E bad \in EntryErrs(path) : HandleCDToPath(Head(pending), bad)
    /\ pending' = Append(Tail(pending), "CDToPath")

\* a Task::done(Message::CDToPath) is delivered
ChainedCDToPath ==
    /\ Running
    /\ pending # <<>>
    /\ \E bad \in EntryErrs(path) : HandleCDToPath(Head(pending), bad)
    /\ pending' = Tail(pending)

\* an Up that stays where it is when there is no parent
UpTargetStay(p) == IF HasParent(p) THEN Parent(p) ELSE p

\* the path Up moves to
UpTarget(p) == IF HasParent(p) THEN Parent(p) ELSE Root

\* Message::Up
MsgUp ==
    /\ Running /\ CanChain
    /\ path' = UpTarget(path)
    /\ pending' = Append(pending, "Up")
    /\ last' = Did("Up", NoArg)
    /\ notes' = 0
    /\ UNCHANGED <<fs, cwd, cfgFile, phase, config, current_files, sidebar_open>>

\* a CD that chains the listing without storing the path
MsgCDKeepsPath(p) ==
    /\ Running /\ CanChain
    /\ pending' = Append(pending, "CD")
    /\ last' = Did("CD", p)
    /\ notes' = 0
    /\ UNCHANGED <<fs, cwd, cfgFile, phase, config, path, current_files, sidebar_open>>

\* Message::CD(path)
MsgCD(p) ==
    /\ Running /\ CanChain
    /\ path' = p
    /\ pending' = Append(pending, "CD")
    /\ last' = Did("CD", p)
    /\ notes' = 0
    /\ UNCHANGED <<fs, cwd, cfgFile, phase, config, current_files, sidebar_open>>

\* a ToggleSidebar that only ever opens the sidebar
MsgOpenSidebar ==
    /\ Running
    /\ sidebar_open' = TRUE
    /\ last' = Did("ToggleSidebar", NoArg)
    /\ notes' = 0
    /\ UNCHANGED <<fs, cwd, cfgFile, phase, config, path, current_files, pending>>

\* Message::ToggleSidebar
MsgToggleSidebar ==
    /\ Running
    /\ sidebar_open' = ~sidebar_open
    /\ last' = Did("ToggleSidebar", NoArg)
    /\ notes' = 0
    /\ UNCHANGED <<fs, cwd, cfgFile, phase, config, path, current_files, pending>>

\* a removal that does not look at the answer
RemoveFileAlways(out, f, n, perm) ==
    LET r == RemoveFile(f, n, perm)
    IN  [tried |-> TRUE, ok |-> r.ok, fs |-> r.fs]

\* `if out { if let Err(e) = remove_file(&path) { error_zenity(..) } }`
RemoveFileIf(out, f, n, perm) ==
    IF out
    THEN LET r == RemoveFile(f, n, perm)
         IN  [tried |-> TRUE, ok |-> r.ok, fs |-> r.fs]
    ELSE [tried |-> FALSE, ok |-> FALSE, fs |-> f]

\* `if out { if let Err(e) = remove_dir_all(&path) { error_zenity(..) } }`
RemoveDirAllIf(out, f, n, perm) ==
    IF out
    THEN LET r == RemoveDirAll(f, n, perm)
         IN  [tried |-> TRUE, ok |-> r.ok, fs |-> r.fs]
    ELSE [tried |-> FALSE, ok |-> FALSE, fs |-> f]

\* the error_zenity calls of a delete handler: the one of question_zenity when
\* zenity could not be run, and the one for a removal that failed
DeleteNotes(q, r) == q.notes + (IF r.tried /\ ~r.ok THEN 1 ELSE 0)

\* Message::DeleteFile(path); path.file_name() is Some for every entry of a listing
MsgDeleteFile(p, outcome, perm) ==
    /\ Running /\ CanChain
    /\ LET q == QuestionZenity(outcome)
           r == RemoveFileIf(q.out, fs, Resolve(p), perm)
       IN  /\ fs' = r.fs
           /\ notes' = DeleteNotes(q, r)
           /\ pending' = Append(pending, "DeleteFile")
           /\ last' = [Did("DeleteFile", p) EXCEPT
                           !.answer = outcome, !.removed = r.ok, !.ok = r.ok]
    /\ UNCHANGED <<cwd, cfgFile, phase, config, path, current_files, sidebar_open>>

\* Message::DeleteDir(path)
MsgDeleteDir(p, outcome, perm) ==
    /\ Running /\ CanChain
    /\ LET q == QuestionZenity(outcome)
           r == RemoveDirAllIf(q.out, fs, Resolve(p), perm)
       IN  /\ fs' = r.fs
           /\ notes' = DeleteNotes(q, r)
           /\ pending' = Append(pending, "DeleteDir")
           /\ last' = [Did("DeleteDir", p) EXCEPT
                           !.answer = outcome, !.removed = r.ok, !.ok = r.ok]
    /\ UNCHANGED <<cwd, cfgFile, phase, config, path, current_files, sidebar_open>>

\* `open::that_detached(path).unwrap()`: a launch error panics
OpenPhase(launched) == IF launched THEN "run" ELSE "crashed"

\* Message::Open(path)
MsgOpen(p, launched) ==
    /\ Running
    /\ phase' = OpenPhase(launched)
    /\ notes' = 0
    /\ last' = [Did("Open", p) EXCEPT !.ok = launched]
    /\ UNCHANGED <<fs, cwd, cfgFile, config, path, current_files, sidebar_open, pending>>

----------------------------------------------------------------------------
(* The application: construction, then the messages the view can send and *)
(* the chained messages of the runtime, in any interleaving.              *)
(* Message::QuitApp is sent by no widget of view().                       *)

Next ==
    \/ Startup
    \/ MsgNone
    \/ \E s \in TypedPaths : MsgPathChanged(s)
    \/ SubmitCDToPath
    \/ ChainedCDToPath
    \/ MsgUp
    \/ \E p \in ViewDirs : MsgCD(p)
    \/ \E p \in (IF sidebar_open THEN SeqRange(Locations) ELSE {}) : MsgCD(p)
    \/ \E p \in ViewFiles, o \in ZenityOutcomes, perm \in BOOLEAN : MsgDeleteFile(p, o, perm)
    \/ \E p \in ViewDirs, o \in ZenityOutcomes, perm \in BOOLEAN : MsgDeleteDir(p, o, perm)
    \/ \E p \in ViewFiles, launched \in BOOLEAN : MsgOpen(p, launched)
    \/ MsgToggleSidebar

Spec == Init /\ [][Next]_vars

----------------------------------------------------------------------------
(* Claims *)

Deletes == {"DeleteFile", "DeleteDir"}

Entries(files) == { files[i][1] : i \in DOMAIN files }

\* C1: the filesystem changes only in a step that handles DeleteFile or
\* DeleteDir and in which the confirmation returned true for that message;
\* a delete whose confirmation did not return true leaves the filesystem as
\* it was, and no other message changes it.
C1_RemovalOnlyAfterConfirmation ==
    [][ /\ (fs' # fs => last'.op \in Deletes /\ last'.answer = "exit0")
        /\ (last'.op \in Deletes /\ last'.answer # "exit0" => fs' = fs)
        /\ (last'.op \notin Deletes => fs' = fs) ]_vars

\* a confirmed deletion has removed the entry
C1_Witness ==
    /\ last.op \in Deletes
    /\ last.answer = "exit0"
    /\ last.removed
    /\ Kind(fs, Resolve(last.arg)) = "none"

\* C2: a CDToPath whose directory is read, every entry of it readable, and
\* yields no entry leaves current_files empty.
C2_EmptyDirectoryReplacesListing ==
    (last.op = "CDToPath" /\ last.ok /\ last.bad = {} /\ last.listed = <<>>)
        => current_files = <<>>

\* the step before a CDToPath was the navigation intent that it completes
Completes(before, after) ==
    /\ after.op = "CDToPath"
    /\ \/ before.op = "PathChanged" /\ after.origin = "Submit"
       \/ before.op \in {"Up", "CD"} /\ after.origin = before.op

\* C3: when the CDToPath that completes a navigation intent (a typed path, Up
\* or CD) cannot read its directory, path and current_files are what they
\* were before the intent.
C3_FailedNavigationKeepsPair ==
    [][ (Completes(last, last') /\ Len(pending) <= 1 /\ ~last'.ok)
            => (path' = last.from /\ current_files' = current_files) ]_vars

\* C4: a CDToPath whose read fails calls error_zenity exactly once, and one
\* whose read succeeds does not call it.
C4_OneNotificationPerFailedRead ==
    last.op = "CDToPath" => notes = (IF last.ok THEN 0 ELSE 1)

\* C5: once a navigation has completed (no entry of the directory failing to
\* read) and no follow-up message is pending, every entry of current_files is
\* a direct child of path, and current_files is the listing of path.
C5_PathMatchesListing ==
    (phase = "run" /\ last.op = "CDToPath" /\ last.bad = {} /\ pending = <<>>)
        => /\ \A e \in Entries(current_files) : HasParent(e) /\ Parent(e) = path
           /\ current_files = GetFiles(path, config.show_hidden_files, last.bad)

\* C6: after a delete and the CDToPath it chains (no entry of the directory
\* failing to read), every entry of current_files exists, and an entry that
\* was removed is not among them.
C6_RelistReflectsDeletion ==
    [][ (last.op \in Deletes /\ last'.op = "CDToPath" /\ last'.origin = last.op
            /\ Len(pending) = 1 /\ last'.bad = {})
            => /\ \A e \in Entries(current_files') : Kind(fs', Resolve(e)) # "none"
               /\ (last.removed => last.arg \notin Entries(current_files')) ]_vars

\* C7: an Open whose launch fails leaves the application running, reports
\* the failure with one notification and changes nothing of the state.
C7_FailedOpenIsNotFatal ==
    (last.op = "Open" /\ ~last.ok) => (phase = "run" /\ notes = 1)

\* C8, as stated: whenever zenity --question does not end with exit status 0
\* (it could not be run, or it exited unsuccessfully), the delete removes
\* nothing and an error is reported.
C8_Original ==
    (last.op \in Deletes /\ last.answer # "exit0") => (~last.removed /\ notes >= 1)

\* C8, amended: when zenity --question could not be run, the delete changes
\* nothing in the filesystem and error_zenity is called exactly once; when it
\* ran and exited unsuccessfully, the delete changes nothing in the filesystem
\* and error_zenity is not called.
C8_UtilityFailureIsDeclined ==
    [][ (last'.op \in Deletes /\ last'.answer # "exit0")
            => /\ fs' = fs
               /\ ~last'.removed
               /\ notes' = (IF last'.answer = "err" THEN 1 ELSE 0) ]_vars

\* a delete whose confirmation dialog could not be run
C8_Witness ==
    /\ last.op \in Deletes
    /\ last.answer = "err"
    /\ notes = 1
    /\ Kind(fs, Resolve(last.arg)) # "none"

\* C9: with a missing or malformed configuration file, construction ends in
\* the running state with no bookmarks, hidden files off and one notification.
C9_BadConfigurationFallsBack ==
    (last.op = "Default" /\ cfgFile.status # "ok")
        => /\ phase = "run"
           /\ config.sidebar_loc = <<>>
           /\ ~config.show_hidden_files
           /\ notes = 1

\* C10: the listing get_files returns never holds "." or ".."; called with
\* show_hidden_files = false it holds no entry whose name starts with '.';
\* called with show_hidden_files = true on a directory it could read, it holds
\* every entry of the directory that could be read.
C10_HiddenFilter ==
    last.op \in {"CDToPath", "Default"} =>
        /\ \A e \in Entries(last.listed) : FileName(e) \notin {".", ".."}
        /\ ~last.flag => \A e \in Entries(last.listed) : ~StartsWithDot(FileName(e))
        /\ (last.flag /\ last.ok) =>
              \A n \in ChildNames(fs, Resolve(last.arg)) \ last.bad :
                  Join(last.arg, n) \in Entries(last.listed)

\* a listing without hidden files of a directory that holds one
C10_Witness ==
    /\ last.op = "CDToPath"
    /\ last.ok
    /\ ~last.flag
    /\ last.listed # <<>>
    /\ \E n \in ChildNames(fs, Resolve(last.arg)) : StartsWithDot(n)

\* C11: in the listing get_files returns, no directory follows a
\* non-directory, and of two entries of the same kind the earlier one has the
\* strictly smaller file name in byte order.
C11_DirsFirstThenByName ==
    last.op \in {"CDToPath", "Default"} =>
        \A i, j \in DOMAIN last.listed :
            i < j =>
                LET a == last.listed[i]
                    b == last.listed[j]
                IN  /\ (~a[2] => ~b[2])
                    /\ (a[2] = b[2] =>
                          BytesLess(OsStrBytes(FileName(a[1])), OsStrBytes(FileName(b[1]))))

\* a listing with a directory whose name sorts between those of two files
C11_Witness ==
    /\ last.op = "CDToPath"
    /\ Len(last.listed) = 3
    /\ last.listed[1][2]
    /\ ~last.listed[2][2]
    /\ ~last.listed[3][2]
    /\ BytesLess(OsStrBytes(FileName(last.listed[2][1])),
                 OsStrBytes(FileName(last.listed[1][1])))

\* C12: Up sets path to its parent (the path without its last component), or
\* to the root when it has none; at the root, Up leaves path at the root.
C12_UpGoesToParentOrRoot ==
    [][ last'.op = "Up" =>
            /\ (path.comps # <<>> =>
                    /\ path'.abs = path.abs
                    /\ path'.comps = SubSeq(path.comps, 1, Len(path.comps) - 1))
            /\ (path.comps = <<>> => path' = Root)
            /\ (path = Root => path' = Root) ]_vars

\* an Up at the root
C12_Witness ==
    /\ last.op = "Up"
    /\ last.from = Root
    /\ path = Root

\* the path and the listing that storing p as the path and then listing it
\* give, from a state whose listing is files
NavigateFrom(p, bad, files) ==
    <<p, KeepOrReplace(GetFiles(p, config.show_hidden_files, bad), files)>>

\* C13: CD(p) followed by the CDToPath it chains, and PathChanged(p) followed
\* by a submitted CDToPath, both end with the same path and current_files:
\* p, and the listing of p put over the listing they started from.
C13_JumpIsSetPathThenNavigate ==
    [][ ( /\ last'.op = "CDToPath"
          /\ Len(pending) <= 1
          /\ \/ last.op = "CD" /\ last'.origin = "CD"
             \/ last.op = "PathChanged" /\ last'.origin = "Submit" )
            => <<path', current_files'>>
                   = NavigateFrom(last.arg, last'.bad, current_files) ]_vars

\* a completed jump to a directory that can also be typed
C13_Witness ==
    /\ last.op = "CDToPath"
    /\ last.origin = "CD"
    /\ path = Abs(<<"A">>)
    /\ path \in TypedPaths
    /\ last.listed # <<>>
    /\ current_files = last.listed

\* C14: after CD to the path of a configured location and the CDToPath it
\* chains, when that directory could be read with every entry readable, path
\* is the location's path and current_files is the content of that directory.
C14_BookmarkJumpShowsDirectory ==
    [][ ( /\ last.op = "CD"
          /\ last.arg \in SeqRange(Locations)
          /\ last'.op = "CDToPath"
          /\ last'.origin = "CD"
          /\ Len(pending) = 1
          /\ last'.ok
          /\ last'.bad = {} )
            => /\ path' = last.arg
               /\ current_files' = GetFiles(last.arg, config.show_hidden_files, {}) ]_vars

\* C15: PathChanged(s) can be handled in every running state for every
\* typed s; it sets path to s, reads no directory, chains no message, and
\* leaves current_files, sidebar_open, config and the filesystem unchanged.
C15_PathChangedOnlyStoresPath ==
    [][ /\ (phase = "run" => \A s \in TypedPaths : ENABLED MsgPathChanged(s))
        /\ (last'.op = "PathChanged" =>
                /\ path' = last'.arg
                /\ phase' = "run"
                /\ last'.listed = <<>>
                /\ notes' = 0
                /\ UNCHANGED <<pending, current_files, sidebar_open, config, fs>>) ]_vars

\* a typed path that names no directory, stored while the listing stays
C15_Witness ==
    /\ last.op = "PathChanged"
    /\ path = Abs(<<"zz">>)
    /\ ~ReadDirOk(path)
    /\ current_files # <<>>
    /\ pending = <<>>

\* C16: ToggleSidebar can be handled in every running state; it negates
\* sidebar_open, chains no message and leaves path, current_files, config and
\* the filesystem unchanged, so that a second ToggleSidebar right after it
\* gives back the state before the first.
C16_ToggleOnlyFlipsSidebar ==
    [][ /\ (phase = "run" => ENABLED MsgToggleSidebar)
        /\ (last'.op = "ToggleSidebar" =>
                /\ sidebar_open' = ~sidebar_open
                /\ phase' = "run"
                /\ notes' = 0
                /\ UNCHANGED <<pending, path, current_files, config, fs>>) ]_vars

\* the sidebar closed by a toggle
C16_Witness ==
    /\ last.op = "ToggleSidebar"
    /\ ~sidebar_open

\* C17: in every interleaving of the user's messages with the chained
\* CDToPath messages, current_files changes only in a CDToPath step, and then
\* to the listing of the path that is stored when the step is taken; a listing
\* of an earlier path is never applied.
C17_ListingIsOfStoredPath ==
    [][ (phase = "run" /\ current_files' # current_files)
            => /\ last'.op = "CDToPath"
               /\ path' = path
               /\ last'.arg = path
               /\ current_files' = GetFiles(path, config.show_hidden_files, last'.bad) ]_vars

\* a CDToPath chained by a CD is delivered after another path has been typed,
\* and lists the typed path
C17_Witness ==
    /\ last.op = "CDToPath"
    /\ last.origin = "CD"
    /\ path = Rel(<<"A">>)
    /\ last.listed # <<>>
    /\ current_files = last.listed

\* C18: every listing the application computes, the one of construction
\* included, is the result of get_files called with the show_hidden_files of
\* the loaded configuration.
C18_ListingUsesConfiguredFlag ==
    (phase = "run" /\ last.op \in {"Default", "CDToPath"})
        => /\ last.flag = config.show_hidden_files
           /\ last.listed = GetFiles(last.arg, config.show_hidden_files, last.bad)

\* C19: after DeleteFile(p) or DeleteDir(p) and the CDToPath it chains, every
\* entry of current_files is a child of the parent directory of p.
C19_DeleteKeepsDirectory ==
    [][ ( /\ last.op \in Deletes
          /\ last'.op = "CDToPath"
          /\ last'.origin = last.op
          /\ Len(pending) = 1 )
            => \A e \in Entries(current_files') :
                   HasParent(e) /\ Parent(e) = Parent(last.arg) ]_vars

====
